---- MODULE Spec2Model ----
(***************************************************************************)
(* Render functions of react-native-paper's Surface and Appbar, as a state *)
(* machine: the host draws props, theme and platform, renders Appbar,      *)
(* renders the Surface element Appbar returns (or a Surface used           *)
(* directly), and the animation driver moves an animated elevation.        *)
(***************************************************************************)
EXTENDS Integers, Sequences, FiniteSets, TLC

VARIABLES platform, theme, root, aProps, aOut, sProps, sOut, anim, pc

vars == <<platform, theme, root, aProps, aOut, sProps, sOut, anim, pc>>

(* ------------------------------ bounds --------------------------------- *)

\* longest child sequence given to Appbar
MaxChildren == 4

\* samples of the animated elevation per unit of elevation
Steps == 2

(* ------------------------- values and styles --------------------------- *)

\* A style or prop value: kind says what the JavaScript value is, v holds its
\* numbers. "undefined" | "num" | "gray" (a colour string) | "transparent"
\* (the colour string 'transparent') | "transform" | "animated" (an
\* Animated.Value) | "interp" (an Animated interpolation, v = outputRange).
Undef == [kind |-> "undefined", v |-> <<>>]

Num(n) == [kind |-> "num", v |-> <<n>>]

Gray(n) == [kind |-> "gray", v |-> <<n>>]

Transparent == [kind |-> "transparent", v |-> <<>>]

Rotate(n) == [kind |-> "transform", v |-> <<n>>]

\* a keyword value such as 'row' or 'center'
Keyword(word) == [kind |-> word, v |-> <<>>]

\* a colour that is an object, not a string (PlatformColor(...))
PlatformColor == [kind |-> "platformColor", v |-> <<>>]

AnimatedValue == [kind |-> "animated", v |-> <<>>]

Interp(outputRange) == [kind |-> "interp", v |-> outputRange]

StyleKeys ==
    {"backgroundColor", "elevation", "margin", "padding", "transform",
     "borderRadius", "height", "flexDirection", "alignItems",
     "paddingHorizontal", "shadowColor", "shadowOpacity", "shadowOffsetHeight",
     "shadowRadius"}

\* the style object {} : every key undefined
EmptyStyle == [k \in StyleKeys |-> Undef]

\* an object literal { key: value, ... } given as a function on some keys
StyleOf(f) == [k \in StyleKeys |-> IF k \in DOMAIN f THEN f[k] ELSE Undef]

\* Object.assign of two flattened styles: the later one wins where it is set
Merge(a, b) == [k \in StyleKeys |-> IF b[k] = Undef THEN a[k] ELSE b[k]]

RECURSIVE flatten(_)
\* StyleSheet.flatten of a style array
flatten(styles) ==
    IF styles = <<>> THEN EmptyStyle
    ELSE Merge(flatten(SubSeq(styles, 1, Len(styles) - 1)), styles[Len(styles)])

(* ------------------------------ Surface -------------------------------- *)

inputRange == <<0, 1, 2, 3, 4, 5>>

\* colour or number sampled at position pos (in 1/Steps of an elevation unit)
\* of the animated value; every number is scaled by Steps to stay an integer.
\* Animated interpolation is piecewise linear between the points of
\* inputRange.
interpolate(outputRange, pos) ==
    LET last == Len(inputRange) - 1
        seg  == IF pos \div Steps >= last THEN last - 1 ELSE pos \div Steps
        frac == pos - seg * Steps
    IN  outputRange[seg + 1] * Steps
          + frac * (outputRange[seg + 2] - outputRange[seg + 1])

\* what the host draws for a value while the animated value is at pos
Sample(val, pos) ==
    CASE val.kind = "num"         -> [kind |-> "num", v |-> <<val.v[1] * Steps>>]
      [] val.kind = "gray"        -> [kind |-> "gray", v |-> <<val.v[1] * Steps>>]
      [] val.kind = "interp"      -> [kind |-> "num", v |-> <<interpolate(val.v, pos)>>]
      [] val.kind = "interpColor" -> [kind |-> "gray", v |-> <<interpolate(val.v, pos)>>]
      [] OTHER                    -> val

isAnimatedValue(it) == it.kind = "animated"

\* styles/overlay: the surface colour lightened in proportion to the elevation
overlay(elevation, surfaceColor) ==
    IF surfaceColor.kind = "gray" /\ elevation.kind = "num"
    THEN Gray(surfaceColor.v[1] + 3 * elevation.v[1])
    ELSE surfaceColor

\* styles/shadow: the static shadow of the legacy design for an elevation
shadow(elevation) ==
    StyleOf([shadowColor        |-> Gray(0),
             shadowOpacity      |-> Num(24),
             shadowOffsetHeight |-> elevation,
             shadowRadius       |-> elevation])

\* a rendered host view: its flattened style, the props spread on it, and
\* whether the caller's children are inside it
Container(style, props, children) ==
    [style |-> style, props |-> props, children |-> children]

\* a render that ended in a thrown TypeError after backgroundColor was
\* computed: nothing is returned
RenderError(backgroundColor) ==
    [kind |-> "error", backgroundColor |-> backgroundColor, containers |-> <<>>]

\* MD2Surface that never applies the overlay
MD2SurfaceNoOverlay(props, th) ==
    LET elevation == IF props.style.elevation = Undef THEN Num(4)
                     ELSE props.style.elevation
        backgroundColor == th.surface
    IN  [kind |-> "md2",
         backgroundColor |-> backgroundColor,
         containers |-> <<Container(
             flatten(<<StyleOf([backgroundColor |-> backgroundColor]),
                       IF elevation # Num(0) THEN shadow(elevation) ELSE EmptyStyle,
                       props.style>>),
             props.rest, TRUE)>>]

MD2Surface(props, th) ==
    LET elevation == IF props.style.elevation = Undef THEN Num(4)
                     ELSE props.style.elevation
        backgroundColor ==
            IF th.dark /\ th.mode = "adaptive"
            THEN overlay(elevation, th.surface)
            ELSE th.surface
    IN  [kind |-> "md2",
         backgroundColor |-> backgroundColor,
         containers |-> <<Container(
             flatten(<<StyleOf([backgroundColor |-> backgroundColor]),
                       IF elevation # Num(0) THEN shadow(elevation) ELSE EmptyStyle,
                       props.style>>),
             props.rest, TRUE)>>]

\* colors.elevation?.[`level${elevation}`]
level(th, n) == th.elevation[n + 1]

SurfaceBackgroundColor(elevation, th) ==
    IF isAnimatedValue(elevation)
    THEN [kind |-> "interpColor",
          v |-> [i \in 1..Len(inputRange) |-> level(th, inputRange[i]).v[1]]]
    ELSE level(th, elevation.v[1])

\* getElevationAndroid interpolating the coarse table on both layers
getElevationAndroidOneTable(elevation, layer) ==
    IF isAnimatedValue(elevation) THEN Interp(<<0, 1, 2, 3, 3, 3>>)
    ELSE Num(<<<<0, 1, 2, 3, 3, 3>>, <<0, 3, 4, 6, 8, 10>>>>[layer + 1][elevation.v[1] + 1])

elevationLevels == <<<<0, 1, 2, 3, 3, 3>>, <<0, 3, 4, 6, 8, 10>>>>

getElevationAndroid(elevation, layer) ==
    LET elevationLevel == elevationLevels[layer + 1]
    IN  IF isAnimatedValue(elevation) THEN Interp(elevationLevel)
        ELSE Num(elevationLevel[elevation.v[1] + 1])

\* clearSpacing that resets the margin only
clearSpacingMarginOnly == StyleOf([margin |-> Num(0)])

clearSpacing == StyleOf([margin |-> Num(0), padding |-> Num(0)])

iOSShadowOutputRanges ==
    <<[shadowOpacity |-> 15,
       height        |-> <<0, 1, 2, 4, 6, 8>>,
       shadowRadius  |-> <<0, 3, 6, 8, 10, 12>>],
      [shadowOpacity |-> 30,
       height        |-> <<0, 1, 1, 1, 2, 4>>,
       shadowRadius  |-> <<0, 1, 2, 3, 3, 4>>]>>

shadowColor == Gray(0)

getStyleForAnimatedShadowLayer(layer) ==
    StyleOf([shadowColor        |-> shadowColor,
             shadowOpacity      |-> Num(iOSShadowOutputRanges[layer + 1].shadowOpacity),
             shadowOffsetHeight |-> Interp(iOSShadowOutputRanges[layer + 1].height),
             shadowRadius       |-> Interp(iOSShadowOutputRanges[layer + 1].shadowRadius)])

getStyleForShadowLayer(elevation, layer) ==
    StyleOf([shadowColor        |-> shadowColor,
             shadowOpacity      |-> Num(iOSShadowOutputRanges[layer + 1].shadowOpacity),
             shadowOffsetHeight |->
                 Num(iOSShadowOutputRanges[layer + 1].height[elevation.v[1] + 1]),
             shadowRadius       |->
                 Num(iOSShadowOutputRanges[layer + 1].shadowRadius[elevation.v[1] + 1])])

\* the Platform.OS === 'android' branch of Surface
SurfaceAndroid(elevation, backgroundColor, props) ==
    IF ~props.hasStyle THEN RenderError(backgroundColor)
    ELSE
    LET style == props.style
        outerLayerStyles ==
            StyleOf([margin       |-> style.margin,
                     padding      |-> style.padding,
                     transform    |-> style.transform,
                     borderRadius |-> style.borderRadius])
    IN  [kind |-> "layered",
         backgroundColor |-> backgroundColor,
         containers |->
           <<Container(
               flatten(<<StyleOf([elevation |-> getElevationAndroid(elevation, 0),
                                  backgroundColor |-> backgroundColor]),
                         outerLayerStyles>>),
               {}, FALSE),
             Container(
               flatten(<<StyleOf([elevation |-> getElevationAndroid(elevation, 1),
                                  borderRadius |-> style.borderRadius]),
                         StyleOf([backgroundColor |-> backgroundColor]),
                         style,
                         clearSpacing>>),
               {}, TRUE)>>]

\* the shadow branches of Surface (every platform other than android)
SurfaceShadow(elevation, backgroundColor, props) ==
    LET sharedStyle ==
            flatten(<<StyleOf([backgroundColor |-> backgroundColor]), props.style>>)
        layer(n) == IF isAnimatedValue(elevation)
                    THEN getStyleForAnimatedShadowLayer(n)
                    ELSE getStyleForShadowLayer(elevation, n)
    IN  [kind |-> "shadow",
         backgroundColor |-> backgroundColor,
         containers |->
           <<Container(layer(0), {}, FALSE),
             Container(layer(1), {}, FALSE),
             Container(sharedStyle, props.rest, TRUE)>>]

\* the render function of Surface on platform os with the theme th in context
Surface(props, os, th) ==
    LET elevation == IF props.elevation = Undef THEN Num(1) ELSE props.elevation
    IN  IF ~th.isV3 THEN MD2Surface(props, th)
        ELSE LET backgroundColor == SurfaceBackgroundColor(elevation, th)
             IN  IF os = "android"
                 THEN SurfaceAndroid(elevation, backgroundColor, props)
                 ELSE SurfaceShadow(elevation, backgroundColor, props)

(* ------------------------------- Appbar -------------------------------- *)

\* A child of Appbar is named by what it is: an element of type
\* AppbarBackAction, AppbarAction (with or without the isLeading prop),
\* AppbarContent or some other component ("View"), or a plain string
\* ("text"), which is a React node but no element.
ChildKinds == {"BackAction", "Action", "LeadingAction", "Content", "View", "text"}

isValidElement(child) == child # "text"

\* child.type
typeOf(child) == IF child = "LeadingAction" THEN "Action" ELSE child

\* child.props.isLeading of an element
isLeadingProp(child) == child = "LeadingAction"

\* the color package: YIQ lightness of a parsed colour string;
\* 'transparent' parses to black with alpha 0
isLight(c) == c.kind = "gray" /\ c.v[1] >= 128

isString(c) == c.kind \in {"gray", "transparent"}

\* utils.getAppbarColor: the custom background if any, else the colour the
\* theme gives the bar at this elevation
getAppbarColor(th, elevation, customBackground) ==
    IF customBackground # Undef THEN customBackground
    ELSE IF ~th.isV3
         THEN IF th.dark /\ th.mode = "adaptive"
              THEN overlay(elevation, th.surface)
              ELSE th.primary
         ELSE level(th, elevation.v[1])

DEFAULT_APPBAR_HEIGHT == 56

\* utils.modeAppbarHeight
modeAppbarHeight(mode) ==
    CASE mode = "medium" -> 112
      [] mode = "large"  -> 152
      [] OTHER           -> DEFAULT_APPBAR_HEIGHT

\* AppbarIsDark without the 'transparent' case
AppbarIsDarkNoTransparent(dark, backgroundColor) ==
    IF dark \in {"true", "false"} THEN dark = "true"
    ELSE IF isString(backgroundColor) THEN ~isLight(backgroundColor)
         ELSE TRUE

\* lines 101-114: the isDark flag
AppbarIsDark(dark, backgroundColor) ==
    IF dark \in {"true", "false"} THEN dark = "true"
    ELSE IF backgroundColor = Transparent THEN FALSE
         ELSE IF isString(backgroundColor) THEN ~isLight(backgroundColor)
              ELSE TRUE

RECURSIVE ChildrenForEachCountingContent(_, _)
\* ChildrenForEach with a Content child after the first counted as an item
ChildrenForEachCountingContent(children, acc) ==
    IF children = <<>> THEN acc
    ELSE LET child == Head(children)
             next  ==
               IF isValidElement(child)
               THEN IF typeOf(child) = "Content" /\ ~acc.hasAppbarContent
                    THEN [acc EXCEPT !.hasAppbarContent = TRUE]
                    ELSE IF acc.hasAppbarContent
                         THEN [acc EXCEPT !.rightItemsCount = @ + 1]
                         ELSE [acc EXCEPT !.leftItemsCount = @ + 1]
               ELSE acc
         IN  ChildrenForEachCountingContent(Tail(children), next)

RECURSIVE ChildrenForEachCountingText(_, _)
\* ChildrenForEach without the React.isValidElement test
ChildrenForEachCountingText(children, acc) ==
    IF children = <<>> THEN acc
    ELSE LET child == Head(children)
             next  ==
               IF typeOf(child) = "Content"
               THEN [acc EXCEPT !.hasAppbarContent = TRUE]
               ELSE IF acc.hasAppbarContent
                    THEN [acc EXCEPT !.rightItemsCount = @ + 1]
                    ELSE [acc EXCEPT !.leftItemsCount = @ + 1]
         IN  ChildrenForEachCountingText(Tail(children), next)

RECURSIVE ChildrenForEach(_, _)
\* lines 120-134: React.Children.forEach over the children, from the state
\* acc = [hasAppbarContent, leftItemsCount, rightItemsCount]
ChildrenForEach(children, acc) ==
    IF children = <<>> THEN acc
    ELSE LET child == Head(children)
             next  ==
               IF isValidElement(child)
               THEN IF typeOf(child) = "Content"
                    THEN [acc EXCEPT !.hasAppbarContent = TRUE]
                    ELSE IF acc.hasAppbarContent
                         THEN [acc EXCEPT !.rightItemsCount = @ + 1]
                         ELSE [acc EXCEPT !.leftItemsCount = @ + 1]
               ELSE acc
         IN  ChildrenForEach(Tail(children), next)

\* AppbarSpacing without the Platform.OS test
AppbarSpacingAnyPlatform(children, os, isV3) ==
    LET zero == [hasAppbarContent |-> FALSE, leftItemsCount |-> 0,
                 rightItemsCount |-> 0]
        c == ChildrenForEach(children, zero)
        shouldCenterContent ==
            ~isV3 /\ c.hasAppbarContent
              /\ c.leftItemsCount < 2 /\ c.rightItemsCount < 2
    IN  [shouldCenterContent   |-> shouldCenterContent,
         shouldAddLeftSpacing  |->
             ~isV3 /\ shouldCenterContent /\ c.leftItemsCount = 0,
         shouldAddRightSpacing |->
             ~isV3 /\ shouldCenterContent /\ c.rightItemsCount = 0,
         hasAppbarContent |-> c.hasAppbarContent,
         leftItemsCount   |-> c.leftItemsCount,
         rightItemsCount  |-> c.rightItemsCount]

\* AppbarSpacing with the right spacer decided by the left count
AppbarSpacingRightFromLeft(children, os, isV3) ==
    LET zero == [hasAppbarContent |-> FALSE, leftItemsCount |-> 0,
                 rightItemsCount |-> 0]
        c == IF os = "ios" THEN ChildrenForEach(children, zero) ELSE zero
        shouldCenterContent ==
            os = "ios" /\ ~isV3 /\ c.hasAppbarContent
              /\ c.leftItemsCount < 2 /\ c.rightItemsCount < 2
    IN  [shouldCenterContent   |-> shouldCenterContent,
         shouldAddLeftSpacing  |->
             os = "ios" /\ ~isV3 /\ shouldCenterContent /\ c.leftItemsCount = 0,
         shouldAddRightSpacing |->
             os = "ios" /\ ~isV3 /\ shouldCenterContent /\ c.leftItemsCount = 0,
         hasAppbarContent |-> c.hasAppbarContent,
         leftItemsCount   |-> c.leftItemsCount,
         rightItemsCount  |-> c.rightItemsCount]

\* lines 116-141: the centering flags, [shouldCenterContent,
\* shouldAddLeftSpacing, shouldAddRightSpacing] with the counts they rest on
AppbarSpacing(children, os, isV3) ==
    LET zero == [hasAppbarContent |-> FALSE, leftItemsCount |-> 0,
                 rightItemsCount |-> 0]
        c == IF os = "ios" THEN ChildrenForEach(children, zero) ELSE zero
        shouldCenterContent ==
            os = "ios" /\ ~isV3 /\ c.hasAppbarContent
              /\ c.leftItemsCount < 2 /\ c.rightItemsCount < 2
    IN  [shouldCenterContent   |-> shouldCenterContent,
         shouldAddLeftSpacing  |->
             os = "ios" /\ ~isV3 /\ shouldCenterContent /\ c.leftItemsCount = 0,
         shouldAddRightSpacing |->
             os = "ios" /\ ~isV3 /\ shouldCenterContent /\ c.rightItemsCount = 0,
         hasAppbarContent |-> c.hasAppbarContent,
         leftItemsCount   |-> c.leftItemsCount,
         rightItemsCount  |-> c.rightItemsCount]

\* lines 143-145
isMode(isV3, mode, modeToCompare) == isV3 /\ mode = modeToCompare

\* lines 147-154: [threw, items]; child.props of a string child is undefined,
\* so reading its isLeading throws a TypeError
filterAppbarActions(children, isLeading) ==
    [threw |-> \E i \in 1..Len(children) : ~isValidElement(children[i]),
     items |-> SelectSeq(children,
                 LAMBDA child : IF isLeading THEN isLeadingProp(child)
                                ELSE ~isLeadingProp(child))]

\* utils.renderAppbarContent: the children whose type is in renderOnly (all
\* of them when renderOnly is empty), each Content, Action and BackAction
\* cloned with the foreground colour for isDark, and Content centered when
\* shouldCenterContent
renderAppbarContent(children, isDark, shouldCenterContent, renderOnly) ==
    LET kept == SelectSeq(children,
                  LAMBDA child : renderOnly = {} \/ typeOf(child) \in renderOnly)
    IN  [i \in 1..Len(kept) |->
           [child    |-> kept[i],
            light    |-> isDark /\ typeOf(kept[i]) \in {"Content", "Action", "BackAction"},
            centered |-> shouldCenterContent /\ typeOf(kept[i]) = "Content"]]

NoRow == [rendered |-> FALSE, items |-> <<>>]

NoColumn ==
    [rendered |-> FALSE, paddingTop |-> Undef, back |-> <<>>, leading |-> <<>>,
     trailing |-> <<>>, content |-> <<>>]

\* styles.appbar
stylesAppbar ==
    StyleOf([flexDirection     |-> Keyword("row"),
             alignItems        |-> Keyword("center"),
             paddingHorizontal |-> Num(4),
             elevation         |-> Num(4)])

\* lines 249-256: styles.columnContainer, then styles.centerAlignedContainer
columnPaddingTop(centerAligned) == IF centerAligned THEN Num(0) ELSE Num(8)

\* the props of the Surface element Appbar returns
AppbarSurfaceProps(backgroundColor, isV3, mode, elevation, restStyle, rest) ==
    [elevation |-> Undef,
     hasStyle  |-> TRUE,
     style     |-> flatten(<<StyleOf([backgroundColor |-> backgroundColor]),
                             stylesAppbar,
                             StyleOf([height |-> Num(IF isV3 THEN modeAppbarHeight(mode)
                                                      ELSE DEFAULT_APPBAR_HEIGHT),
                                      elevation |-> elevation]),
                             restStyle>>),
     rest      |-> rest]

\* the render function of Appbar on platform os with theme th
Appbar(props, os, th) ==
    LET children == props.children
        mode     == IF props.mode = "undefined" THEN "small" ELSE props.mode
        isV3     == th.isV3
        customBackground == props.style.backgroundColor
        elevation == IF props.style.elevation = Undef
                     THEN Num(IF isV3 THEN 0 ELSE 4)
                     ELSE props.style.elevation
        restStyle == [props.style EXCEPT !.backgroundColor = Undef,
                                         !.elevation = Undef]
        backgroundColor == getAppbarColor(th, elevation, customBackground)
        isDark   == AppbarIsDark(props.dark, backgroundColor)
        sp       == AppbarSpacing(children, os, isV3)
        single   == ~isV3 \/ isMode(isV3, mode, "small")
        double   == isMode(isV3, mode, "medium") \/ isMode(isV3, mode, "large")
                      \/ isMode(isV3, mode, "center-aligned")
        leading  == filterAppbarActions(children, TRUE)
        trailing == filterAppbarActions(children, FALSE)
        threw    == double /\ (leading.threw \/ trailing.threw)
    IN  [kind     |-> IF threw THEN "error" ELSE "ok",
         isDark   |-> isDark,
         spacing  |-> sp,
         leftSpacer  |-> ~threw /\ sp.shouldAddLeftSpacing,
         singleRow   |->
             IF single /\ ~threw
             THEN [rendered |-> TRUE,
                   items |-> renderAppbarContent(children, isDark,
                                                 sp.shouldCenterContent, {})]
             ELSE NoRow,
         twoRow      |->
             IF double /\ ~threw
             THEN [rendered   |-> TRUE,
                   paddingTop |->
                       columnPaddingTop(isMode(isV3, mode, "center-aligned")),
                   back       |-> renderAppbarContent(children, isDark, FALSE,
                                                      {"BackAction"}),
                   leading    |-> renderAppbarContent(leading.items, isDark, FALSE,
                                                      {"Action"}),
                   trailing   |-> renderAppbarContent(trailing.items, isDark, FALSE,
                                                      {"Action"}),
                   content    |-> renderAppbarContent(children, isDark,
                                     isMode(isV3, mode, "center-aligned"),
                                     {"Content"})]
             ELSE NoColumn,
         rightSpacer |-> ~threw /\ sp.shouldAddRightSpacing,
         surface     |-> AppbarSurfaceProps(backgroundColor, isV3, mode, elevation,
                                            restStyle, props.rest)]

(* ------------------------------- inputs -------------------------------- *)

Platforms == {"ios", "android"}

\* the themes the host may supply: the current design (isV3) light and dark,
\* and the legacy design light, dark adaptive and dark exact
MD3LightTheme ==
    [isV3 |-> TRUE, dark |-> FALSE, mode |-> "adaptive",
     surface |-> Gray(254), primary |-> Gray(90),
     elevation |-> <<Gray(255), Gray(247), Gray(243), Gray(238), Gray(236), Gray(232)>>]

MD3DarkTheme ==
    [isV3 |-> TRUE, dark |-> TRUE, mode |-> "adaptive",
     surface |-> Gray(28), primary |-> Gray(200),
     elevation |-> <<Gray(27), Gray(37), Gray(42), Gray(47), Gray(49), Gray(52)>>]

MD2LightTheme ==
    [isV3 |-> FALSE, dark |-> FALSE, mode |-> "adaptive",
     surface |-> Gray(255), primary |-> Gray(70),
     elevation |-> <<Undef, Undef, Undef, Undef, Undef, Undef>>]

MD2DarkAdaptiveTheme ==
    [isV3 |-> FALSE, dark |-> TRUE, mode |-> "adaptive",
     surface |-> Gray(18), primary |-> Gray(190),
     elevation |-> <<Undef, Undef, Undef, Undef, Undef, Undef>>]

MD2DarkExactTheme == [MD2DarkAdaptiveTheme EXCEPT !.mode = "exact"]

Themes ==
    {MD3LightTheme, MD3DarkTheme, MD2LightTheme, MD2DarkAdaptiveTheme,
     MD2DarkExactTheme}

\* all child sequences of length at most n
ChildSeqs(n) == UNION {[1..k -> ChildKinds] : k \in 0..n}

Modes == {"small", "medium", "large", "center-aligned"}

\* the styles a caller gives Appbar
AppbarStyles ==
    {StyleOf([backgroundColor |-> bg, elevation |-> el]) :
        bg \in {Undef, Transparent, Gray(240), Gray(30), PlatformColor},
        el \in {Undef, Num(2)}}

\* Appbar props: every child sequence under every mode with the other props
\* left out, and every dark, style and rest under the short child sequences
AppbarProps ==
    [children : ChildSeqs(MaxChildren), dark : {"undefined"},
     mode : Modes \cup {"undefined"}, style : {EmptyStyle}, rest : {{}}]
    \cup
    [children : ChildSeqs(1), dark : {"true", "false", "undefined"},
     mode : {"undefined"}, style : AppbarStyles, rest : {{}, {"testID"}}]

\* the styles a caller gives Surface
SurfaceStyles ==
    {StyleOf([margin |-> m, padding |-> p, transform |-> t, borderRadius |-> r,
              backgroundColor |-> bg, elevation |-> el]) :
        m \in {Undef, Num(8)}, p \in {Undef, Num(8)}, t \in {Undef, Rotate(45)},
        r \in {Undef, Num(4)}, bg \in {Undef, Gray(120)}, el \in {Undef, Num(2)}}

\* Surface props: elevation left out, static 0..5 or animated; style left out
\* or given
SurfaceProps ==
    [elevation : {Undef, AnimatedValue} \cup {Num(inputRange[i]) : i \in 1..Len(inputRange)},
     hasStyle  : {TRUE},
     style     : SurfaceStyles,
     rest      : {{}, {"testID"}}]
    \cup
    [elevation : {Undef, AnimatedValue} \cup {Num(inputRange[i]) : i \in 1..Len(inputRange)},
     hasStyle  : {FALSE},
     style     : {EmptyStyle},
     rest      : {{}, {"testID"}}]

\* the positions the animation driver can put the animated value at
Positions == 0..(inputRange[Len(inputRange)] * Steps)

(* ---------------------------- state machine ---------------------------- *)

NoAppbarProps ==
    [children |-> <<>>, dark |-> "undefined", mode |-> "undefined",
     style |-> EmptyStyle, rest |-> {}]

NoSurfaceProps ==
    [elevation |-> Undef, hasStyle |-> FALSE, style |-> EmptyStyle, rest |-> {}]

NotRendered == [kind |-> "none", backgroundColor |-> Undef, containers |-> <<>>]

AppbarNotRendered ==
    [kind |-> "none", isDark |-> FALSE,
     spacing |-> AppbarSpacing(<<>>, "android", TRUE),
     leftSpacer |-> FALSE, singleRow |-> NoRow, twoRow |-> NoColumn,
     rightSpacer |-> FALSE, surface |-> NoSurfaceProps]

\* the host mounts an Appbar or a Surface with some props, on some platform,
\* under some theme; nothing is rendered yet
Init ==
    /\ platform \in Platforms
    /\ theme \in Themes
    /\ root \in {"Appbar", "Surface"}
    /\ aProps \in IF root = "Appbar" THEN AppbarProps ELSE {NoAppbarProps}
    /\ sProps \in IF root = "Surface" THEN SurfaceProps ELSE {NoSurfaceProps}
    /\ aOut = AppbarNotRendered
    /\ sOut = NotRendered
    /\ anim = 0
    /\ pc = "mount"

\* the host calls Appbar; the Surface element it returns is rendered next,
\* unless the call threw
AppbarRender ==
    /\ pc = "mount"
    /\ root = "Appbar"
    /\ aOut' = Appbar(aProps, platform, theme)
    /\ IF aOut'.kind = "error"
       THEN pc' = "failed" /\ sProps' = sProps
       ELSE pc' = "surface" /\ sProps' = aOut'.surface
    /\ UNCHANGED <<platform, theme, root, aProps, sOut, anim>>

\* the host calls Surface
SurfaceRender ==
    /\ \/ pc = "surface"
       \/ pc = "mount" /\ root = "Surface"
    /\ sOut' = Surface(sProps, platform, theme)
    /\ pc' = IF sOut'.kind = "error" THEN "failed" ELSE "rendered"
    /\ UNCHANGED <<platform, theme, root, aProps, aOut, sProps, anim>>

\* the animation driver moves the animated elevation by one sample; the
\* interpolations of the rendered tree follow it without a render
Animate ==
    /\ pc = "rendered"
    /\ isAnimatedValue(sProps.elevation)
    /\ \E p \in {anim - 1, anim + 1} \cap Positions : anim' = p
    /\ UNCHANGED <<platform, theme, root, aProps, aOut, sProps, sOut, pc>>

Next == AppbarRender \/ SurfaceRender \/ Animate

Spec == Init /\ [][Next]_vars

(* ------------------------- claims: definitions ------------------------- *)

\* Appbar has been called (whether or not it threw)
AppbarCalled == aOut.kind # "none"

\* Surface has been called (whether or not it threw)
SurfaceCalled == sOut.kind # "none"

\* Surface has returned a tree
SurfaceReturned == sOut.kind \in {"md2", "layered", "shadow"}

Legacy == ~theme.isV3

ContentAt(children) == {i \in 1..Len(children) : typeOf(children[i]) = "Content"}

\* index of the first Content child (past the end when there is none)
FirstContent(children) ==
    IF ContentAt(children) = {} THEN Len(children) + 1
    ELSE CHOOSE i \in ContentAt(children) : \A j \in ContentAt(children) : i <= j

\* element children before the first Content
LeadingItems(children) ==
    Cardinality({i \in 1..Len(children) :
                   i < FirstContent(children) /\ isValidElement(children[i])})

\* element children other than Content after the first Content
TrailingItems(children) ==
    Cardinality({i \in 1..Len(children) :
                   /\ i > FirstContent(children)
                   /\ isValidElement(children[i])
                   /\ typeOf(children[i]) # "Content"})

\* the platform on which Surface renders the layered-elevation effect
LayeredElevationPlatform(os) ==
    Surface([NoSurfaceProps EXCEPT !.hasStyle = TRUE], os, MD3LightTheme).kind
        = "layered"

(* ------------------------------- C1 ------------------------------------ *)

\* C1 as stated: in the legacy classification (which runs on ios) the bar is
\* centered iff there is exactly one Content child with at most one child
\* before it and at most one child after it.
C1_CenteredIffExactlyOneContent ==
    (AppbarCalled /\ Legacy /\ platform = "ios") =>
        (aOut.spacing.shouldCenterContent <=>
            /\ Cardinality(ContentAt(aProps.children)) = 1
            /\ FirstContent(aProps.children) - 1 <= 1
            /\ Len(aProps.children) - FirstContent(aProps.children) <= 1)

\* C1 amended: in the legacy classification on ios the bar is centered iff
\* there is at least one Content child, at most one element child before the
\* first Content and at most one element child other than Content after it
\* (non-element children and further Content children are not counted); the
\* counts are those numbers; [Content] is centered and [BackAction, Content,
\* Action, Action] has leading 1, trailing 2 and is not centered.
C1_CenteredIffContentAndFewItems ==
    (AppbarCalled /\ Legacy /\ platform = "ios") =>
        /\ aOut.spacing.leftItemsCount = LeadingItems(aProps.children)
        /\ aOut.spacing.rightItemsCount = TrailingItems(aProps.children)
        /\ aOut.spacing.shouldCenterContent <=>
              /\ ContentAt(aProps.children) # {}
              /\ LeadingItems(aProps.children) <= 1
              /\ TrailingItems(aProps.children) <= 1
        /\ aProps.children = <<"Content">> => aOut.spacing.shouldCenterContent
        /\ aProps.children = <<"BackAction", "Content", "Action", "Action">> =>
              /\ aOut.spacing.leftItemsCount = 1
              /\ aOut.spacing.rightItemsCount = 2
              /\ ~aOut.spacing.shouldCenterContent

C1_Witness ==
    /\ AppbarCalled /\ Legacy /\ platform = "ios"
    /\ aProps.children = <<"BackAction", "Content", "Action", "Action">>
    /\ aOut.spacing.rightItemsCount = 2
    /\ ~aOut.spacing.shouldCenterContent

(* ------------------------------- C2 ------------------------------------ *)

\* C2 as stated: centering happens only in the legacy design and only on the
\* platform where Surface renders the layered elevation; in the current
\* design or on the other platform nothing is centered and no spacer shown.
C2_CenteringOnlyOnLayeredPlatform ==
    (AppbarCalled /\ (theme.isV3 \/ ~LayeredElevationPlatform(platform))) =>
        /\ ~aOut.spacing.shouldCenterContent
        /\ ~aOut.leftSpacer
        /\ ~aOut.rightSpacer

\* C2 amended: centering happens only in the legacy design and only on ios,
\* which is the platform where Surface renders shadows, not the one where it
\* renders the layered elevation (android); in the current design or on the
\* layered-elevation platform nothing is centered and no spacer is shown.
C2_CenteringOnlyOnShadowPlatform ==
    (AppbarCalled /\ (theme.isV3 \/ LayeredElevationPlatform(platform))) =>
        /\ ~aOut.spacing.shouldCenterContent
        /\ ~aOut.leftSpacer
        /\ ~aOut.rightSpacer

C2_Witness ==
    /\ AppbarCalled /\ Legacy /\ LayeredElevationPlatform(platform)
    /\ aProps.children = <<"Content">>
    /\ ~aOut.spacing.shouldCenterContent
    /\ ~aOut.leftSpacer /\ ~aOut.rightSpacer

(* ------------------------------- C3 ------------------------------------ *)

\* C3: the left spacer is rendered iff the bar is centered and there is no
\* leading item, the right spacer iff it is centered and there is no trailing
\* item; with [Content] alone (legacy, ios) both are rendered; no spacer is
\* rendered when the bar is not centered.
C3_SpacersOnEmptySides ==
    AppbarCalled =>
        /\ aOut.leftSpacer <=>
              aOut.spacing.shouldCenterContent /\ LeadingItems(aProps.children) = 0
        /\ aOut.rightSpacer <=>
              aOut.spacing.shouldCenterContent /\ TrailingItems(aProps.children) = 0
        /\ (aProps.children = <<"Content">> /\ Legacy /\ platform = "ios") =>
              aOut.leftSpacer /\ aOut.rightSpacer
        /\ ~aOut.spacing.shouldCenterContent => ~aOut.leftSpacer /\ ~aOut.rightSpacer

C3_Witness ==
    /\ AppbarCalled /\ Legacy /\ platform = "ios"
    /\ aProps.children = <<"Content", "Action">>
    /\ aOut.leftSpacer /\ ~aOut.rightSpacer

(* ------------------------------- C4 ------------------------------------ *)

\* C4: for every design version and mode Appbar renders exactly one of the
\* two layouts: the single row when legacy or mode small, the two rows when
\* current and mode medium, large or center-aligned; only center-aligned has
\* no top padding and a centered content row.
C4_ExactlyOneLayout ==
    AppbarCalled =>
        LET mode == IF aProps.mode = "undefined" THEN "small" ELSE aProps.mode
        IN  /\ aOut.singleRow.rendered <=> (Legacy \/ mode = "small")
            /\ aOut.twoRow.rendered <=>
                  (theme.isV3 /\ mode \in {"medium", "large", "center-aligned"})
            /\ aOut.singleRow.rendered # aOut.twoRow.rendered
            /\ aOut.twoRow.rendered =>
                  /\ (aOut.twoRow.paddingTop = Num(0)) <=> (mode = "center-aligned")
                  /\ \A i \in 1..Len(aOut.twoRow.content) :
                        aOut.twoRow.content[i].centered <=> (mode = "center-aligned")

(* ------------------------------- C5 ------------------------------------ *)

\* the tree Surface returns for the static elevation e, all else equal
StaticSurface(e) == Surface([sProps EXCEPT !.elevation = Num(e)], platform, theme)

\* what the host draws for a returned tree with the animated value at pos
Drawn(out, pos) ==
    [backgroundColor |-> Sample(out.backgroundColor, pos),
     containers |->
        [i \in 1..Len(out.containers) |->
            [style    |-> [k \in StyleKeys |-> Sample(out.containers[i].style[k], pos)],
             props    |-> out.containers[i].props,
             children |-> out.containers[i].children]]]

\* C5: in the current design, with the animated elevation at an integer
\* point e of 0..5, what Surface draws (background colour, the elevation of
\* both containers on android, the shadow offset height and radius of both
\* shadow layers elsewhere) is what it draws for the static elevation e.
C5_InterpolationMatchesStatic ==
    (SurfaceReturned /\ theme.isV3 /\ isAnimatedValue(sProps.elevation)) =>
        \A e \in 0..5 :
            anim = e * Steps => Drawn(sOut, anim) = Drawn(StaticSurface(e), anim)

C5_Witness ==
    /\ SurfaceReturned /\ theme.isV3 /\ isAnimatedValue(sProps.elevation)
    /\ platform = "android"
    /\ anim = 4 * Steps
    /\ Drawn(sOut, anim).containers[2].style.elevation = Num(8 * Steps)

(* ------------------------------- C6 ------------------------------------ *)

\* C6 as stated: for a static elevation e the background colour is the
\* theme's level-e colour in the current design and, in the legacy design,
\* the overlay of e over colors.surface when dark and adaptive, colors.surface
\* otherwise.
C6_BackgroundFromElevationProp ==
    (SurfaceCalled /\ sProps.elevation.kind = "num") =>
        sOut.backgroundColor =
            IF theme.isV3 THEN level(theme, sProps.elevation.v[1])
            ELSE IF theme.dark /\ theme.mode = "adaptive"
                 THEN overlay(sProps.elevation, theme.surface)
                 ELSE theme.surface

\* C6 amended: for a static elevation e the background colour is the theme's
\* level-e colour in the current design; in the legacy design the elevation
\* prop plays no part: the colour is the overlay of the style's elevation (4
\* when the style has none) over colors.surface when dark and adaptive, and
\* colors.surface otherwise.
C6_BackgroundFromStyleElevationInLegacy ==
    (SurfaceCalled /\ sProps.elevation.kind = "num") =>
        sOut.backgroundColor =
            IF theme.isV3 THEN level(theme, sProps.elevation.v[1])
            ELSE IF theme.dark /\ theme.mode = "adaptive"
                 THEN overlay(IF sProps.style.elevation = Undef THEN Num(4)
                              ELSE sProps.style.elevation, theme.surface)
                 ELSE theme.surface

C6_Witness ==
    /\ SurfaceReturned /\ Legacy /\ theme.dark /\ theme.mode = "adaptive"
    /\ sProps.elevation = Num(1)
    /\ sProps.style.elevation = Num(2)
    /\ sOut.backgroundColor = overlay(Num(2), theme.surface)
    /\ sOut.backgroundColor # overlay(Num(1), theme.surface)

(* ------------------------------- C7 ------------------------------------ *)

LayoutFields == {"margin", "padding", "transform", "borderRadius"}

\* C7 as stated: on android in the current design the outer container has the
\* coarse elevation and the caller's margin, padding, transform and border
\* radius, and on the inner container each of the four is zeroed, so none of
\* them takes effect on both containers.
C7_LayoutFieldsZeroedOnInner ==
    sOut.kind = "layered" =>
        /\ \A k \in LayoutFields : sOut.containers[1].style[k] = sProps.style[k]
        /\ \A k \in LayoutFields : sOut.containers[2].style[k] \in {Undef, Num(0)}

\* C7 amended: on android in the current design the outer container has the
\* coarse elevation and the caller's margin, padding, transform and border
\* radius; on the inner container margin and padding are zeroed, so they are
\* never applied twice, while the caller's transform and border radius are
\* on the inner container too.
C7_SpacingZeroedOnInner ==
    sOut.kind = "layered" =>
        /\ \A k \in LayoutFields : sOut.containers[1].style[k] = sProps.style[k]
        /\ sOut.containers[1].style.elevation \in
              {Interp(elevationLevels[1])} \cup
              {Num(elevationLevels[1][i]) : i \in 1..Len(elevationLevels[1])}
        /\ sOut.containers[2].style.margin = Num(0)
        /\ sOut.containers[2].style.padding = Num(0)
        /\ sOut.containers[2].style.transform = sProps.style.transform
        /\ sOut.containers[2].style.borderRadius = sProps.style.borderRadius

C7_Witness ==
    /\ sOut.kind = "layered"
    /\ sProps.style.margin = Num(8) /\ sProps.style.padding = Num(8)
    /\ sProps.style.transform = Rotate(45) /\ sProps.style.borderRadius = Num(4)
    /\ sOut.containers[1].style.margin = Num(8)
    /\ sOut.containers[2].style.margin = Num(0)
    /\ sOut.containers[2].style.transform = Rotate(45)

(* ------------------------------- C8 ------------------------------------ *)

\* C8: on every branch, every prop the caller gives Surface other than
\* elevation, children, theme and style is on a rendered container.
C8_RestPropsForwarded ==
    SurfaceReturned =>
        \A name \in sProps.rest :
            \E i \in 1..Len(sOut.containers) : name \in sOut.containers[i].props

(* ------------------------------- C9 ------------------------------------ *)

Without(children, kinds) == SelectSeq(children, LAMBDA child : child \notin kinds)

\* C9 as stated: children whose type is none of BackAction, Action, Content
\* are in no bucket: with or without them the counts, the centering flag and
\* the spacers are the same.
C9_UnrecognizedChildrenNotCounted ==
    AppbarCalled =>
        aOut.spacing =
            AppbarSpacing(Without(aProps.children, {"View", "text"}),
                          platform, theme.isV3)

\* C9 amended: children that are not elements (plain text) are in no bucket:
\* with or without them the counts, the centering flag and the spacers are
\* the same; an element of any type other than Content, recognized or not,
\* is counted as a leading or trailing item like an Action.
C9_NonElementChildrenNotCounted ==
    AppbarCalled =>
        /\ aOut.spacing =
              AppbarSpacing(Without(aProps.children, {"text"}), platform, theme.isV3)
        /\ aOut.spacing =
              AppbarSpacing([i \in 1..Len(aProps.children) |->
                                IF aProps.children[i] = "View" THEN "Action"
                                ELSE aProps.children[i]],
                            platform, theme.isV3)
        /\ (Legacy /\ platform = "ios") =>
              aOut.spacing.leftItemsCount + aOut.spacing.rightItemsCount =
                  Len(Without(aProps.children, {"text", "Content"}))

C9_Witness ==
    /\ AppbarCalled /\ Legacy /\ platform = "ios"
    /\ aProps.children = <<"text", "View", "Content", "text">>
    /\ aOut.spacing.leftItemsCount = 1
    /\ aOut.spacing.shouldCenterContent
    /\ ~aOut.leftSpacer /\ aOut.rightSpacer

(* ------------------------------- C10 ----------------------------------- *)

\* the background colour Appbar computed (it is the one it gives Surface)
AppbarBackground == aOut.surface.style.backgroundColor

\* C10: isDark is the dark prop when that is a boolean; otherwise it is false
\* for the background 'transparent', the negation of the colour's lightness
\* for any other string, and true for a background that is not a string.
C10_IsDark ==
    AppbarCalled =>
        /\ aProps.dark = "true" => aOut.isDark
        /\ aProps.dark = "false" => ~aOut.isDark
        /\ (aProps.dark = "undefined" /\ AppbarBackground = Transparent) => ~aOut.isDark
        /\ (aProps.dark = "undefined" /\ AppbarBackground.kind = "gray") =>
              (aOut.isDark <=> ~isLight(AppbarBackground))
        /\ (aProps.dark = "undefined" /\ AppbarBackground = PlatformColor) => aOut.isDark

C10_Witness ==
    /\ AppbarCalled
    /\ aProps.dark = "undefined"
    /\ AppbarBackground = Transparent
    /\ ~aOut.isDark

(* ------------------------------- C11 ----------------------------------- *)

\* C11: no render ends in a runtime error: for every design version,
\* platform and mode, Appbar and Surface return a tree when style, elevation,
\* dark or mode are left out and when a child is plain text.
C11_RenderNeverFails ==
    /\ aOut.kind # "error"
    /\ sOut.kind # "error"
    /\ pc # "failed"

(* ------------------------------- C12 ----------------------------------- *)

TwoRowModes == {"medium", "large", "center-aligned"}

\* the children shown in a rendered slot, in order
Shown(slot) == [i \in 1..Len(slot) |-> slot[i].child]

\* C12: in the two-row layouts filterAppbarActions(true) and
\* filterAppbarActions(false) split the child sequence in two by the
\* isLeading flag alone, each child in exactly one of them and in its
\* original order, so the controls row shows the back actions, then the
\* Action children with isLeading, then (right-aligned) the other Action
\* children, each Action child in exactly one of the two slots, wherever it
\* stands relative to Content.
C12_ActionsPartitionedByIsLeading ==
    (AppbarCalled /\ theme.isV3 /\ aProps.mode \in TwoRowModes) =>
        LET children == aProps.children
            leading  == filterAppbarActions(children, TRUE)
            trailing == filterAppbarActions(children, FALSE)
        IN  /\ ~leading.threw /\ ~trailing.threw
            /\ Len(leading.items) + Len(trailing.items) = Len(children)
            /\ leading.items = Without(children, ChildKinds \ {"LeadingAction"})
            /\ trailing.items = Without(children, {"LeadingAction"})
            /\ aOut.twoRow.rendered
            /\ Shown(aOut.twoRow.back) = Without(children, ChildKinds \ {"BackAction"})
            /\ Shown(aOut.twoRow.leading) =
                  Without(children, ChildKinds \ {"LeadingAction"})
            /\ Shown(aOut.twoRow.trailing) = Without(children, ChildKinds \ {"Action"})

====
